---- MODULE Spec2Model ----
(***************************************************************************)
(* A model of the TIFF-sequence reader (tiled/readers/tiff_sequence.py)    *)
(* and of the search-route declaration (catalog_server/server/router.py).  *)
(*                                                                         *)
(* The module holds four state machines over disjoint groups of variables: *)
(*   SpecSniff  subdirectory_handler applied to a directory                *)
(*   SpecRead   TiffSequenceReader.read / read_block / macrostructure of   *)
(*              two readers sharing one object cache, one call at a time   *)
(*   SpecCache  concurrent read(i) calls going through the object cache    *)
(*   SpecRoute  declare_search_route over a registry of query types        *)
(* Each specification holds the other groups at their idle values.         *)
(***************************************************************************)
EXTENDS Integers, Sequences, FiniteSets, TLC

VARIABLES
    dirEntries,   \* the directory handed to subdirectory_handler: entry -> count
    sniffOut,     \* what subdirectory_handler did: not called, None, a reader, a fault
    files,        \* reader -> seq.files, the sorted file list of its TiffSequence
    frameShape,   \* the shape of the array one file decodes to
    cacheKey,     \* reader -> self._cache_key
    objectCache,  \* the object cache: entries, least recently used first
    last,         \* the last call on a reader and how it ended
    pc,           \* caller -> where it is in read(i): idle, computing, waiting
    call,         \* caller -> its latest read(i) and what it was handed
    inflight,     \* the runs of the factory in progress: key and run number
    nruns,        \* the number of runs of the factory started so far
    made,         \* caller -> the number of calls it has made
    name_to_query_type,  \* the registry of query types, in registration order
    declared,     \* how declare_search_route ended: no (not called), declared, a fault
    signature,    \* the parameters of search.__signature__
    routes        \* the paths registered on the router

sniffVars == <<dirEntries, sniffOut>>
readVars == <<files, frameShape, cacheKey, objectCache, last>>

callerVars == <<pc, call, inflight, nruns, made>>
routeVars == <<name_to_query_type, declared, signature, routes>>

vars == <<dirEntries, sniffOut, files, frameShape, cacheKey, objectCache, last,
          pc, call, inflight, nruns, made,
          name_to_query_type, declared, signature, routes>>

(***************************************************************************)
(* Bounds of the model.                                                    *)
(***************************************************************************)
\* most files named like a001.tif in the directory
MaxMatches == 100
\* most files named like notes.txt in the directory
MaxOutliers == 21
\* most files of a TIFF sequence
MaxFiles == 3
\* the concurrent callers of read(i)
NumCallers == 2
\* most calls of read(i) the callers make between them
MaxCalls == 3
\* most fields of a query type
MaxFields == 3

(***************************************************************************)
(* Generic helpers.                                                        *)
(***************************************************************************)
Range(s) == {s[i] : i \in DOMAIN s}

RECURSIVE SumSeq(_)
SumSeq(s) == IF s = <<>> THEN 0 ELSE Head(s) + SumSeq(Tail(s))

Last(s) == s[Len(s)]

(***************************************************************************)
(* hashlib.md5 (RFC 1321) over a sequence of bytes.  A 32-bit word is the  *)
(* pair <<high 16 bits, low 16 bits>>, so that every intermediate value    *)
(* stays below 2^31.                                                       *)
(***************************************************************************)
RECURSIVE Pow2(_)
Pow2(n) == IF n = 0 THEN 1 ELSE 2 * Pow2(n - 1)

RECURSIVE BitAnd16(_, _, _)
BitAnd16(x, y, n) ==
    IF n = 0 THEN 0
    ELSE (x % 2) * (y % 2) + 2 * BitAnd16(x \div 2, y \div 2, n - 1)

RECURSIVE BitXor16(_, _, _)
BitXor16(x, y, n) ==
    IF n = 0 THEN 0
    ELSE ((x + y) % 2) + 2 * BitXor16(x \div 2, y \div 2, n - 1)

WAnd(a, b) == <<BitAnd16(a[1], b[1], 16), BitAnd16(a[2], b[2], 16)>>
WXor(a, b) == <<BitXor16(a[1], b[1], 16), BitXor16(a[2], b[2], 16)>>
WNot(a) == <<65535 - a[1], 65535 - a[2]>>
\* a | b = ~(~a & ~b)
WOr(a, b) == WNot(WAnd(WNot(a), WNot(b)))

\* addition modulo 2^32
WAdd(a, b) ==
    LET lo == a[2] + b[2]
    IN  <<(a[1] + b[1] + (lo \div 65536)) % 65536, lo % 65536>>

\* rotation to the left by s bits, 0 < s < 32
WRotl(a, s) ==
    LET x == IF s >= 16 THEN <<a[2], a[1]>> ELSE a
        t == s % 16
    IN  IF t = 0 THEN x
        ELSE <<((x[1] * Pow2(t)) % 65536) + (x[2] \div Pow2(16 - t)),
               ((x[2] * Pow2(t)) % 65536) + (x[1] \div Pow2(16 - t))>>

\* floor(2^32 * abs(sin(i + 1))), i = 0..63
Md5K ==
    << <<55146, 42104>>, <<59591, 46934>>, <<9248, 28891>>, <<49597, 52974>>,
       <<62844, 4015>>, <<18311, 50730>>, <<43056, 17939>>, <<64838, 38145>>,
       <<27008, 39128>>, <<35652, 63407>>, <<65535, 23473>>, <<35164, 55230>>,
       <<27536, 4386>>, <<64920, 29075>>, <<42617, 17294>>, <<18868, 2081>>,
       <<63006, 9570>>, <<49216, 45888>>, <<9822, 23121>>, <<59830, 51114>>,
       <<54831, 4189>>, <<580, 5203>>, <<55457, 59009>>, <<59347, 64456>>,
       <<8673, 52710>>, <<49975, 2006>>, <<62677, 3463>>, <<17754, 5357>>,
       <<43491, 59653>>, <<64751, 41976>>, <<26479, 729>>, <<36138, 19594>>,
       <<65530, 14658>>, <<34673, 63105>>, <<28061, 24866>>, <<64997, 14348>>,
       <<42174, 59972>>, <<19422, 53161>>, <<63163, 19296>>, <<48831, 48240>>,
       <<10395, 32454>>, <<60065, 10234>>, <<54511, 12421>>, <<1160, 7429>>,
       <<55764, 53305>>, <<59099, 39397>>, <<8098, 31992>>, <<50348, 22117>>,
       <<62505, 8772>>, <<17194, 65431>>, <<43924, 9127>>, <<64659, 41017>>,
       <<25947, 22979>>, <<36620, 52370>>, <<65519, 62589>>, <<34180, 24017>>,
       <<28584, 32335>>, <<65068, 59104>>, <<41729, 17172>>, <<19976, 4513>>,
       <<63315, 32386>>, <<48442, 62005>>, <<10967, 53947>>, <<60294, 54161>> >>

Md5Shift ==
    << 7, 12, 17, 22, 7, 12, 17, 22, 7, 12, 17, 22, 7, 12, 17, 22,
       5, 9, 14, 20, 5, 9, 14, 20, 5, 9, 14, 20, 5, 9, 14, 20,
       4, 11, 16, 23, 4, 11, 16, 23, 4, 11, 16, 23, 4, 11, 16, 23,
       6, 10, 15, 21, 6, 10, 15, 21, 6, 10, 15, 21, 6, 10, 15, 21 >>

\* 0x67452301, 0xefcdab89, 0x98badcfe, 0x10325476
Md5Start == << <<26437, 8961>>, <<61389, 43913>>, <<39098, 56574>>, <<4146, 21622>> >>

RECURSIVE Zeros(_)
Zeros(n) == IF n = 0 THEN <<>> ELSE <<0>> \o Zeros(n - 1)

\* the message, a 1 bit, zeros up to 56 modulo 64, the bit length in 8 bytes
Md5Pad(bytes) ==
    LET n == Len(bytes)
        z == (55 - n) % 64
        bits == 8 * n
    IN  bytes \o <<128>> \o Zeros(z)
            \o <<bits % 256, (bits \div 256) % 256, (bits \div 65536) % 256>>
            \o Zeros(5)

\* word j (0..15) of the block starting after byte `off`, little-endian
Md5Word(padded, off, j) ==
    LET p == off + 4 * j
    IN  <<padded[p + 3] + 256 * padded[p + 4], padded[p + 1] + 256 * padded[p + 2]>>

\* round i (0..63) on the state <<A, B, C, D>>
Md5Round(i, st, padded, off) ==
    LET A == st[1]
        B == st[2]
        C == st[3]
        D == st[4]
        F == IF i < 16 THEN WOr(WAnd(B, C), WAnd(WNot(B), D))
             ELSE IF i < 32 THEN WOr(WAnd(D, B), WAnd(WNot(D), C))
             ELSE IF i < 48 THEN WXor(B, WXor(C, D))
             ELSE WXor(C, WOr(B, WNot(D)))
        g == IF i < 16 THEN i
             ELSE IF i < 32 THEN (5 * i + 1) % 16
             ELSE IF i < 48 THEN (3 * i + 5) % 16
             ELSE (7 * i) % 16
        sum == WAdd(WAdd(F, A), WAdd(Md5K[i + 1], Md5Word(padded, off, g)))
    IN  <<D, WAdd(B, WRotl(sum, Md5Shift[i + 1])), B, C>>

\* rounds i..63; each round's state of four words is computed before the next
RECURSIVE Md5Rounds(_, _, _, _)
Md5Rounds(i, st, padded, off) ==
    IF i = 64 \/ Len(st) # 4 THEN st
    ELSE Md5Rounds(i + 1, Md5Round(i, st, padded, off), padded, off)

Md5AddState(st, r) ==
    <<WAdd(st[1], r[1]), WAdd(st[2], r[2]), WAdd(st[3], r[3]), WAdd(st[4], r[4])>>

RECURSIVE Md5Blocks(_, _, _)
Md5Blocks(st, padded, off) ==
    IF off >= Len(padded) \/ Len(st) # 4 THEN st
    ELSE Md5Blocks(Md5AddState(st, Md5Rounds(0, st, padded, off)), padded, off + 64)

HexChars == <<"0", "1", "2", "3", "4", "5", "6", "7", "8", "9", "a", "b", "c", "d", "e", "f">>

HexOfByte(b) == <<HexChars[(b \div 16) + 1], HexChars[(b % 16) + 1]>>

\* the four bytes of a word, least significant first, in hexadecimal
HexOfWord(w) ==
    HexOfByte(w[2] % 256) \o HexOfByte(w[2] \div 256)
        \o HexOfByte(w[1] % 256) \o HexOfByte(w[1] \div 256)

\* hashlib.md5(bytes).hexdigest()
Md5Hex(st) ==
    HexOfWord(st[1]) \o HexOfWord(st[2]) \o HexOfWord(st[3]) \o HexOfWord(st[4])

md5_hexdigest(bytes) == Md5Hex(Md5Blocks(Md5Start, Md5Pad(bytes), 0))

(***************************************************************************)
(* Directory entries.  A name is a sequence of characters; an entry says   *)
(* whether it is a regular file.  One entry stands for the names of its    *)
(* shape (a001.tif for a001.tif, a002.tif, ...): dirEntries counts how     *)
(* many children of that shape the directory has.                          *)
(***************************************************************************)
Digits == {"0", "1", "2", "3", "4", "5", "6", "7", "8", "9"}

TifSequenceFile == [name |-> <<"a", "0", "0", "1", ".", "t", "i", "f">>, is_file |-> TRUE]
TextFile == [name |-> <<"n", "o", "t", "e", "s", ".", "t", "x", "t">>, is_file |-> TRUE]

\* entries the directory holds at most once
RareEntries ==
    { [name |-> <<"r", "0", "0", "1", ".", "t", "i", "f">>, is_file |-> FALSE],      \* a sub-directory r001.tif
      [name |-> <<".", "a", "0", "0", "1", ".", "t", "i", "f">>, is_file |-> TRUE],  \* hidden .a001.tif
      [name |-> <<"b", "0", "0", "2", ".", "t", "i", "f", "f">>, is_file |-> TRUE],  \* b002.tiff
      [name |-> <<"1", "2", ".", "t", "i", "f">>, is_file |-> TRUE],                 \* 12.tif, a short stem
      [name |-> <<"a", "0", "1", "b", ".", "t", "i", "f">>, is_file |-> TRUE],       \* a01b.tif
      [name |-> <<"a", "0", "0", "1">>, is_file |-> TRUE] }                          \* a001, no extension

Entries == {TifSequenceFile, TextFile} \cup RareEntries

MaxCount(e) ==
    IF e = TifSequenceFile THEN MaxMatches
    ELSE IF e = TextFile THEN MaxOutliers
    ELSE 1

(***************************************************************************)
(* pathlib: PurePath.suffix and PurePath.stem split the name at its last   *)
(* dot, unless that dot is the first or the last character.                *)
(***************************************************************************)
\* str.rfind("."): the last position of a dot (1-based), 0 when there is none
RFindDot(name) ==
    LET dots == {i \in DOMAIN name : name[i] = "."}
    IN  IF dots = {} THEN 0 ELSE CHOOSE i \in dots : \A j \in dots : j <= i

SplitsAtDot(name) == LET i == RFindDot(name) IN 1 < i /\ i < Len(name)

suffix(name) ==
    IF SplitsAtDot(name) THEN SubSeq(name, RFindDot(name), Len(name)) ELSE <<>>

stem(name) ==
    IF SplitsAtDot(name) THEN SubSeq(name, 1, RFindDot(name) - 1) ELSE name

\* s[-3:]
LastThree(s) == IF Len(s) <= 3 THEN s ELSE SubSeq(s, Len(s) - 2, Len(s))

\* str.isdigit(): non-empty and every character a digit
isdigit(s) == s # <<>> /\ \A i \in DOMAIN s : s[i] \in Digits

startswithDot(name) == name # <<>> /\ name[1] = "."

TiffSuffixes == { <<".", "t", "i", "f">>, <<".", "t", "i", "f", "f">> }

(***************************************************************************)
(* subdirectory_handler.                                                   *)
(***************************************************************************)
\* RELATIVE_THRESHOLD = 0.2 as the fraction 1/5
RELATIVE_THRESHOLD_NUM == 1
RELATIVE_THRESHOLD_DEN == 5
ABSOLUTE_THRESHOLD == 10

\* The loop body's classification of one child of the directory.
SkippedEntry(e) == ~e.is_file \/ startswithDot(e.name)

LooksLikeSequenceFile(e) ==
    /\ ~SkippedEntry(e)
    /\ suffix(e.name) \in TiffSuffixes
    /\ isdigit(LastThree(stem(e.name)))

CountedOutlier(e) == ~SkippedEntry(e) /\ ~LooksLikeSequenceFile(e)

\* The loop over path.iterdir(): the children are visited in some order, each
\* once; the counts it ends with do not depend on the order.
RECURSIVE ScanLoop(_, _, _, _)
ScanLoop(todo, dir, nfilepaths, outliers) ==
    IF todo = {} THEN [nfilepaths |-> nfilepaths, outliers |-> outliers]
    ELSE LET e == CHOOSE x \in todo : TRUE
         IN  IF SkippedEntry(e)
             THEN ScanLoop(todo \ {e}, dir, nfilepaths, outliers)
             ELSE IF LooksLikeSequenceFile(e)
             THEN ScanLoop(todo \ {e}, dir, nfilepaths + dir[e], outliers)
             ELSE ScanLoop(todo \ {e}, dir, nfilepaths, outliers + dir[e])

\* fraction <= RELATIVE_THRESHOLD, for fraction = outliers / total.  The float
\* quotient is correctly rounded and 0.2 is the double nearest 1/5, so the
\* comparison agrees with the exact one for every directory of fewer than
\* 10^15 files.
FractionWithinThreshold_Strict(outliers, total) ==
    outliers * RELATIVE_THRESHOLD_DEN < RELATIVE_THRESHOLD_NUM * total

FractionWithinThreshold(outliers, total) ==
    outliers * RELATIVE_THRESHOLD_DEN <= RELATIVE_THRESHOLD_NUM * total

NotCalled == [outcome |-> "not called", nfiles |-> 0]

subdirectory_handler_result(dir) ==
    LET scan == ScanLoop(Entries, dir, 0, 0)
        total == scan.outliers + scan.nfilepaths
    IN  IF total = 0
        THEN [outcome |-> "ZeroDivisionError", nfiles |-> 0]
        ELSE IF scan.outliers <= ABSOLUTE_THRESHOLD
                /\ FractionWithinThreshold(scan.outliers, total)
        THEN [outcome |-> "TiffSequenceReader", nfiles |-> scan.nfilepaths]
        ELSE [outcome |-> "None", nfiles |-> 0]

\* The environment puts one more child into the directory.
AddEntry(e) ==
    /\ sniffOut = NotCalled
    /\ dirEntries[e] < MaxCount(e)
    /\ dirEntries' = [dirEntries EXCEPT ![e] = @ + 1]
    /\ UNCHANGED <<sniffOut, readVars, callerVars, routeVars>>

subdirectory_handler ==
    /\ sniffOut = NotCalled
    /\ sniffOut' = subdirectory_handler_result(dirEntries)
    /\ UNCHANGED <<dirEntries, readVars, callerVars, routeVars>>

SniffIdle == dirEntries = [e \in Entries |-> 0] /\ sniffOut = NotCalled

(***************************************************************************)
(* TIFF sequences.  File k stands for a00k.tif; what it decodes to is      *)
(* identified by k, and every file decodes to an array of shape            *)
(* frameShape.                                                             *)
(***************************************************************************)
Readers == {"r1", "r2"}

FileIds == 1..MaxFiles

\* the bytes of the name a00k.tif
FileName(k) == <<97, 48, 48, 48 + k, 46, 116, 105, 102>>

\* a < b for strings
RECURSIVE StrLess(_, _)
StrLess(a, b) ==
    IF b = <<>> THEN FALSE
    ELSE IF a = <<>> THEN TRUE
    ELSE IF Head(a) # Head(b) THEN Head(a) < Head(b)
    ELSE StrLess(Tail(a), Tail(b))

\* sorted(filepaths)
RECURSIVE sorted(_)
sorted(S) ==
    IF S = {} THEN <<>>
    ELSE LET m == CHOOSE x \in S :
                    \A y \in S \ {x} : StrLess(FileName(x), FileName(y))
         IN  <<m>> \o sorted(S \ {m})

\* str(seq.files): "['a001.tif', 'a002.tif']"
RECURSIVE JoinReprs(_)
JoinReprs(fs) ==
    IF fs = <<>> THEN <<>>
    ELSE <<39>> \o FileName(Head(fs)) \o <<39>>
            \o (IF Len(fs) > 1 THEN <<44, 32>> ELSE <<>>) \o JoinReprs(Tail(fs))

StrOfFiles(fs) == <<91>> \o JoinReprs(fs) \o <<93>>

\* a fingerprint of the first file alone
ReaderCacheKey_FirstFileOnly(fs) ==
    [module |-> "tiled.readers.tiff_sequence",
     qualname |-> "TiffSequenceReader",
     digest |-> md5_hexdigest(StrOfFiles(<<fs[1]>>))]

\* TiffSequenceReader.__init__: self._cache_key
ReaderCacheKey(fs) ==
    [module |-> "tiled.readers.tiff_sequence",
     qualname |-> "TiffSequenceReader",
     digest |-> md5_hexdigest(StrOfFiles(fs))]

\* self._cache_key, the key of the whole array
BaseKey(r) == [base |-> cacheKey[r], index |-> <<>>]

\* the key of the whole array used for a file
IndexKey_WithoutIndex(r, i) == [base |-> cacheKey[r], index |-> <<>>]

\* self._cache_key + (i,)
IndexKey(r, i) == [base |-> cacheKey[r], index |-> <<i>>]

(***************************************************************************)
(* Selectors and numpy arrays.  An optional integer is a set of at most    *)
(* one integer ({} is None).  An atom is one element of a selector: an      *)
(* int, a builtins.slice, or a value of another type.                      *)
(***************************************************************************)
Only(S) == CHOOSE x \in S : TRUE

IntAtom(i) == [kind |-> "int", i |-> i, start |-> {}, stop |-> {}, step |-> {}]
SliceAtom(a, b, c) == [kind |-> "slice", i |-> 0, start |-> a, stop |-> b, step |-> c]
OtherAtom == [kind |-> "other", i |-> 0, start |-> {}, stop |-> {}, step |-> {}]
FullSlice == SliceAtom({}, {}, {})

NoSelector == [kind |-> "none", atoms |-> <<>>]
AtomSelector(a) == [kind |-> "atom", atoms |-> <<a>>]
TupleSelector(as) == [kind |-> "tuple", atoms |-> as]

\* An array: the files whose frames it holds, whether they are stacked along
\* a leading axis, and the index expression applied to that.
NoArray == [stacked |-> FALSE, frames |-> <<>>, idx |-> <<>>]
Frame(f) == [stacked |-> FALSE, frames |-> <<f>>, idx |-> <<>>]
Stack(fs) == [stacked |-> TRUE, frames |-> fs, idx |-> <<>>]

\* len(range(*slice.indices(n))) for a slice with a positive or absent step
SliceLen(n, a) ==
    LET step == IF a.step = {} THEN 1 ELSE Only(a.step)
        clamp(v) == IF v < 0 THEN (IF v + n < 0 THEN 0 ELSE v + n)
                    ELSE IF v > n THEN n ELSE v
        lo == IF a.start = {} THEN 0 ELSE clamp(Only(a.start))
        hi == IF a.stop = {} THEN n ELSE clamp(Only(a.stop))
    IN  IF hi <= lo THEN 0 ELSE (hi - lo + step - 1) \div step

\* The shape of x[tuple(rest)] for x of shape `shape`; ok is FALSE where numpy
\* raises IndexError (too many indices, an index out of bounds, a bad index).
RECURSIVE IndexShape(_, _)
IndexShape(shape, rest) ==
    IF rest = <<>> THEN [ok |-> TRUE, shape |-> shape]
    ELSE IF shape = <<>> THEN [ok |-> FALSE, shape |-> <<>>]
    ELSE LET a == Head(rest)
             n == Head(shape)
             more == IndexShape(Tail(shape), Tail(rest))
         IN  IF a.kind = "int"
             THEN IF -n <= a.i /\ a.i < n THEN more ELSE [ok |-> FALSE, shape |-> <<>>]
             ELSE IF a.kind = "slice" /\ (a.step = {} \/ Only(a.step) > 0)
             THEN [ok |-> more.ok,
                   shape |-> IF more.ok THEN <<SliceLen(n, a)>> \o more.shape ELSE <<>>]
             ELSE [ok |-> FALSE, shape |-> <<>>]

\* numpy.ndarray.shape
ArrayShape(arr) ==
    IndexShape((IF arr.stacked THEN <<Len(arr.frames)>> ELSE <<>>) \o frameShape,
               arr.idx).shape

\* arr[tuple(rest)]; arr[()] is arr
GetItem(arr, rest) ==
    IF rest = <<>> THEN [err |-> "", value |-> arr]
    ELSE IF arr.idx = <<>> /\ IndexShape(ArrayShape(arr), rest).ok
    THEN [err |-> "", value |-> [arr EXCEPT !.idx = rest]]
    ELSE [err |-> "IndexError", value |-> NoArray]

\* numpy.stack(arrays)
RECURSIVE FramesOf(_)
FramesOf(arrs) ==
    IF arrs = <<>> THEN <<>> ELSE Head(arrs).frames \o FramesOf(Tail(arrs))

numpy_stack(arrs) ==
    IF arrs = <<>> THEN [err |-> "ValueError", value |-> NoArray]
    ELSE [err |-> "", value |-> Stack(FramesOf(arrs))]

\* range(start, stop, step), step # 0
RECURSIVE range(_, _, _)
range(start, stop, step) ==
    IF (step > 0 /\ start >= stop) \/ (step < 0 /\ start <= stop) THEN <<>>
    ELSE <<start>> \o range(start + step, stop, step)

(***************************************************************************)
(* _safe_asarray(seq, index): seq.asarray(index=index).  With an index it  *)
(* decodes seq.files[index] (list indexing: a negative index counts from   *)
(* the end, an index outside the list is an IndexError); without, it       *)
(* decodes every file into one array.                                      *)
(***************************************************************************)
safe_asarray(r, index) ==
    LET fs == files[r]
        n == Len(fs)
    IN  IF index = <<>>
        THEN [err |-> "", value |-> Stack(fs), decoded |-> fs]
        ELSE LET i == index[1]
             IN  IF -n <= i /\ i < n
                 THEN LET f == fs[(IF i < 0 THEN i + n ELSE i) + 1]
                      IN  [err |-> "", value |-> Frame(f), decoded |-> <<f>>]
                 ELSE [err |-> "IndexError", value |-> NoArray, decoded |-> <<>>]

(***************************************************************************)
(* The object cache, with_object_cache(key, factory, *args).  On a hit the *)
(* stored value is returned and the entry becomes the most recently used;  *)
(* on a miss the factory runs, a failure is passed on and stores nothing,  *)
(* a result is stored and the least recently used entry is evicted when    *)
(* the capacity is exceeded.                                               *)
(***************************************************************************)
CacheCapacity == 2

Position(cache, key) ==
    LET at == {p \in DOMAIN cache : cache[p].key = key}
    IN  IF at = {} THEN 0 ELSE Only(at)

Without(s, p) == SubSeq(s, 1, p - 1) \o SubSeq(s, p + 1, Len(s))

Evict(cache) == IF Len(cache) > CacheCapacity THEN Tail(cache) ELSE cache

\* One call's account: the cache after it, the error it raised (if any), the
\* value it returned, and what it did: the keys it used, the hits (with the
\* reader that had stored the entry), the keys it stored, the files it decoded.
CacheHit(cache, key, p) ==
    [cache |-> Append(Without(cache, p), cache[p]),
     err |-> "", value |-> cache[p].value, keys |-> <<key>>,
     hits |-> <<[key |-> key, by |-> cache[p].by]>>,
     stored |-> <<>>, decoded |-> <<>>]

\* c is what the factory did
CacheMiss(cache, key, r, c) ==
    IF c.err # ""
    THEN [cache |-> cache, err |-> c.err, value |-> NoArray, keys |-> <<key>>,
          hits |-> <<>>, stored |-> <<>>, decoded |-> <<>>]
    ELSE [cache |-> Evict(Append(cache, [key |-> key, value |-> c.value, by |-> r])),
          err |-> "", value |-> c.value, keys |-> <<key>>,
          hits |-> <<>>, stored |-> <<key>>, decoded |-> c.decoded]

with_object_cache(cache, key, r, index) ==
    IF Position(cache, key) > 0
    THEN CacheHit(cache, key, Position(cache, key))
    ELSE CacheMiss(cache, key, r, safe_asarray(r, index))

(***************************************************************************)
(* TiffSequenceReader.read.  A call's account is that of the cache calls   *)
(* it made, in order.                                                      *)
(***************************************************************************)
\* with_object_cache(self._cache_key + (i,), _safe_asarray, self._seq, index=i)
CachedFile(cache, r, i) == with_object_cache(cache, IndexKey(r, i), r, <<i>>)

\* with_object_cache(self._cache_key, _safe_asarray, self._seq)
CachedWhole(cache, r) == with_object_cache(cache, BaseKey(r), r, <<>>)

Raise(cache, e) ==
    [cache |-> cache, err |-> e, value |-> NoArray, keys |-> <<>>, hits |-> <<>>,
     stored |-> <<>>, decoded |-> <<>>]

EmptyAccount(cache) ==
    [cache |-> cache, err |-> "", arrays |-> <<>>, keys |-> <<>>, hits |-> <<>>,
     stored |-> <<>>, decoded |-> <<>>]

\* the account acc of the calls so far, followed by the call c
Then(acc, c) ==
    [cache |-> c.cache, err |-> c.err,
     arrays |-> IF c.err = "" THEN Append(acc.arrays, c.value) ELSE acc.arrays,
     keys |-> acc.keys \o c.keys, hits |-> acc.hits \o c.hits,
     stored |-> acc.stored \o c.stored, decoded |-> acc.decoded \o c.decoded]

\* [with_object_cache(self._cache_key + (i,), ...) for i in idxs]: the calls are
\* made in the order of idxs and the first failure ends the comprehension.
RECURSIVE CachedFiles(_, _, _)
CachedFiles(acc, r, idxs) ==
    IF idxs = <<>> \/ acc.err # "" THEN acc
    ELSE CachedFiles(Then(acc, CachedFile(acc.cache, r, Head(idxs))), r, Tail(idxs))

\* numpy.stack(list) of the arrays the comprehension gave
Stacked(got, st) ==
    [cache |-> got.cache,
     err |-> IF got.err # "" THEN got.err ELSE st.err,
     value |-> IF got.err # "" THEN NoArray ELSE st.value,
     keys |-> got.keys, hits |-> got.hits, stored |-> got.stored,
     decoded |-> got.decoded]

StackOf(got) == Stacked(got, numpy_stack(got.arrays))

slice_start(s) == IF s.start = {} THEN 0 ELSE Only(s.start)
slice_step(s) == IF s.step = {} THEN 1 ELSE Only(s.step)

\* numpy.stack([... for i in range(slice_start, s.stop, slice_step)]) for a
\* builtins.slice s; range() raises TypeError for a stop of None and
\* ValueError for a step of 0.
StackOfSlice(cache, r, s) ==
    IF s.stop = {} THEN Raise(cache, "TypeError")
    ELSE IF slice_step(s) = 0 THEN Raise(cache, "ValueError")
    ELSE StackOf(CachedFiles(EmptyAccount(cache), r,
                             range(slice_start(s), Only(s.stop), slice_step(s))))

WithItem(got, item) == [got EXCEPT !.err = item.err, !.value = item.value]

\* arr = arr[tuple(the_rest)]
ApplyIndex(got, rest) ==
    IF got.err # "" THEN got ELSE WithItem(got, GetItem(got.value, rest))

\* arr as the first element of the tuple selects it; where image_axis is neither
\* an int nor a slice arr is never assigned and its use raises UnboundLocalError
ImageAxis(cache, r, image_axis) ==
    IF image_axis.kind = "int" THEN CachedFile(cache, r, image_axis.i)
    ELSE IF image_axis.kind = "slice" THEN StackOfSlice(cache, r, image_axis)
    ELSE Raise(cache, "UnboundLocalError")

\* the branch `if isinstance(slice, tuple)`; image_axis, *the_rest = () raises
\* ValueError
ReadTuple(cache, r, atoms) ==
    IF atoms = <<>> THEN Raise(cache, "ValueError")
    ELSE ApplyIndex(ImageAxis(cache, r, Head(atoms)), Tail(atoms))

\* read(self, slice=None).  err is "None" where the function falls off its
\* end and returns None.
read(cache, r, sel) ==
    IF sel.kind = "none" THEN CachedWhole(cache, r)
    ELSE IF sel.kind = "atom" /\ sel.atoms[1].kind = "int"
    THEN CachedFile(cache, r, sel.atoms[1].i)
    ELSE IF sel.kind = "tuple" THEN ReadTuple(cache, r, sel.atoms)
    ELSE IF sel.kind = "atom" /\ sel.atoms[1].kind = "slice"
    THEN StackOfSlice(cache, r, sel.atoms[1])
    ELSE Raise(cache, "None")

\* a check of block[1] alone
BlockRejected_SecondAxisOnly(block) == Len(block) < 2 \/ block[2] # 0

\* if block[1:] != (0, 0): raise IndexError(block)
BlockRejected(block) == SubSeq(block, 2, Len(block)) # <<0, 0>>

\* if slice is not None: arr = arr[slice]
ApplySub(got, sub) == IF sub = {} THEN got ELSE ApplyIndex(got, Only(sub))

\* read_block(self, block, slice=None); sub is {} for slice=None and {rest}
\* for an index expression
read_block(cache, r, block, sub) ==
    IF BlockRejected(block) THEN Raise(cache, "IndexError")
    ELSE ApplySub(read(cache, r, AtomSelector(SliceAtom({block[1]}, {block[1] + 1}, {}))),
                  sub)

\* ArrayMacroStructure(shape=shape, chunks=((1,) * shape[0], (shape[1],),
\* (shape[2],))); shape[1] and shape[2] raise IndexError on a shape of fewer
\* than three axes
StructureOfShape(got, shape) ==
    IF Len(shape) < 3
    THEN [read |-> [got EXCEPT !.err = "IndexError", !.value = NoArray],
          shape |-> <<>>, chunks |-> <<>>]
    ELSE [read |-> [got EXCEPT !.value = NoArray],
          shape |-> shape,
          chunks |-> << [i \in 1..shape[1] |-> 1], <<shape[2]>>, <<shape[3]>> >>]

\* shape = (len(self._seq), *self.read(slice=0).shape)
StructureOf(r, got) ==
    IF got.err # "" THEN [read |-> got, shape |-> <<>>, chunks |-> <<>>]
    ELSE StructureOfShape(got, <<Len(files[r])>> \o ArrayShape(got.value))

\* macrostructure(self)
macrostructure(cache, r) == StructureOf(r, read(cache, r, AtomSelector(IntAtom(0))))

(***************************************************************************)
(* The calls made on the readers, one at a time.                           *)
(***************************************************************************)
NoCall ==
    [op |-> "none", reader |-> "", sel |-> NoSelector, block |-> <<>>, sub |-> {},
     outcome |-> "", value |-> NoArray, keys |-> <<>>, hits |-> <<>>,
     stored |-> <<>>, decoded |-> <<>>, shape |-> <<>>, chunks |-> <<>>]

Account(op, r, sel, block, sub, got, shape, chunks) ==
    [op |-> op, reader |-> r, sel |-> sel, block |-> block, sub |-> sub,
     outcome |-> IF got.err = "" THEN (IF op = "macrostructure" THEN "structure" ELSE "array")
                 ELSE got.err,
     value |-> got.value, keys |-> got.keys, hits |-> got.hits,
     stored |-> got.stored, decoded |-> got.decoded, shape |-> shape, chunks |-> chunks]

\* The call ends: the cache is as the call left it and the account is kept.
Ends(op, r, sel, block, sub, got, shape, chunks) ==
    /\ objectCache' = got.cache
    /\ last' = Account(op, r, sel, block, sub, got, shape, chunks)
    /\ UNCHANGED <<files, frameShape, cacheKey, sniffVars, callerVars, routeVars>>

EndsWithStructure(r, m) ==
    Ends("macrostructure", r, NoSelector, <<>>, {}, m.read, m.shape, m.chunks)

Read(r, sel) ==
    /\ last = NoCall
    /\ Ends("read", r, sel, <<>>, {}, read(objectCache, r, sel), <<>>, <<>>)

ReadBlock(r, block, sub) ==
    /\ last = NoCall
    /\ Ends("read_block", r, NoSelector, block, sub,
            read_block(objectCache, r, block, sub), <<>>, <<>>)

Macrostructure(r) ==
    /\ last = NoCall
    /\ EndsWithStructure(r, macrostructure(objectCache, r))

\* The caller takes the result; the next call can be made.
Return ==
    /\ last # NoCall
    /\ last' = NoCall
    /\ UNCHANGED <<files, frameShape, cacheKey, objectCache, sniffVars, callerVars, routeVars>>

\* The inputs of the calls.
OptionalInts(S) == {{}} \cup {{v} : v \in S}

IntInputs == -1..MaxFiles

SliceInputs ==
    {SliceAtom(a, b, c) : a \in OptionalInts({1, 2}),
                          b \in OptionalInts({0, 2, MaxFiles, MaxFiles + 1}),
                          c \in OptionalInts({-1, 0, 2})}

RestInputs ==
    { <<>>, <<IntAtom(0)>>, <<FullSlice, IntAtom(1)>>, <<IntAtom(0), IntAtom(0), IntAtom(0)>> }

FirstInputs == { IntAtom(0), SliceAtom({}, {2}, {}), OtherAtom }

Selectors ==
    {NoSelector, AtomSelector(OtherAtom), TupleSelector(<<>>)}
        \cup {AtomSelector(IntAtom(i)) : i \in IntInputs}
        \cup {AtomSelector(s) : s \in SliceInputs}
        \cup {TupleSelector(<<a>> \o rest) : a \in FirstInputs, rest \in RestInputs}

Tails == { <<0, 0>>, <<0, 1>>, <<1, 0>> }

Blocks ==
    {<<0>>, <<0, 0>>, <<0, 0, 0, 0>>}
        \cup {<<b>> \o t : b \in 0..MaxFiles, t \in Tails}

SubInputs == {{}, {<<IntAtom(0)>>}}

\* a greyscale frame, an RGB frame, a single row
FrameShapes == { <<2, 3>>, <<2, 3, 3>>, <<4>> }

\* The file lists: r1 reads a001.tif .. a00n.tif, r2 reads a00k.tif .. a00<MaxFiles>.tif.
PrefixLists == {sorted(1..n) : n \in FileIds}
SuffixLists == {sorted(k..MaxFiles) : k \in FileIds}

ReadIdle ==
    /\ files = [r \in Readers |-> <<>>]
    /\ frameShape = <<>>
    /\ cacheKey = [r \in Readers |-> <<>>]
    /\ objectCache = <<>>
    /\ last = NoCall

(***************************************************************************)
(* Concurrent callers of read(i).  The object cache coalesces the callers  *)
(* of one key: the first to miss runs the factory, the callers that miss   *)
(* while it runs wait for it and are handed its result or its error.  A    *)
(* run of the factory is numbered, and an entry records the run that       *)
(* produced it (in its field `by`), so that the result of one run can be   *)
(* told from that of another.                                              *)
(***************************************************************************)
Callers == 1..NumCallers

NoRead ==
    [reader |-> "", index |-> 0, key |-> [base |-> <<>>, index |-> <<>>],
     cached |-> FALSE, missed |-> FALSE, joined |-> 0, ran |-> FALSE,
     outcome |-> "", value |-> NoArray, run |-> 0]

InFlight(key) == {f \in inflight : f.key = key}

\* get_or_compute(key, compute), up to the point where the caller has its
\* value, runs compute, or waits
GetOrCompute(c, key, r, i) ==
    LET p == Position(objectCache, key)
        asked == [NoRead EXCEPT !.reader = r, !.index = i, !.key = key, !.cached = TRUE]
    IN  IF p > 0
        THEN /\ objectCache' = Append(Without(objectCache, p), objectCache[p])
             /\ call' = [call EXCEPT ![c] =
                            [asked EXCEPT !.outcome = "array",
                                          !.value = objectCache[p].value,
                                          !.run = objectCache[p].by]]
             /\ UNCHANGED <<pc, inflight, nruns>>
        ELSE IF InFlight(key) # {}
        THEN /\ pc' = [pc EXCEPT ![c] = "waiting"]
             /\ call' = [call EXCEPT ![c] =
                            [asked EXCEPT !.missed = TRUE,
                                          !.joined = Only(InFlight(key)).run]]
             /\ UNCHANGED <<objectCache, inflight, nruns>>
        ELSE /\ pc' = [pc EXCEPT ![c] = "computing"]
             /\ nruns' = nruns + 1
             /\ inflight' = inflight \cup {[key |-> key, run |-> nruns + 1]}
             /\ call' = [call EXCEPT ![c] =
                            [asked EXCEPT !.missed = TRUE, !.ran = TRUE,
                                          !.run = nruns + 1]]
             /\ UNCHANGED objectCache

\* the factory called without the cache
ComputeDirectly(c, key, r, i) ==
    /\ pc' = [pc EXCEPT ![c] = "computing"]
    /\ nruns' = nruns + 1
    /\ call' = [call EXCEPT ![c] =
                    [NoRead EXCEPT !.reader = r, !.index = i, !.key = key,
                                   !.missed = Position(objectCache, key) = 0,
                                   !.joined = IF InFlight(key) = {} THEN 0
                                              ELSE Only(InFlight(key)).run,
                                   !.ran = TRUE, !.run = nruns + 1]]
    /\ UNCHANGED <<objectCache, inflight>>

\* _safe_asarray(self._seq, index=slice) called directly
ReadInt_Uncached(c, r, i) == ComputeDirectly(c, IndexKey(r, i), r, i)

\* read(slice) for an int:
\* with_object_cache(self._cache_key + (slice,), _safe_asarray, self._seq, index=slice)
ReadInt(c, r, i) == GetOrCompute(c, IndexKey(r, i), r, i)

\* the calls made so far
RECURSIVE CallsMade(_)
CallsMade(c) == IF c = 0 THEN 0 ELSE made[c] + CallsMade(c - 1)

\* A caller calls read(i) on a reader.
CallRead(c, r, i) ==
    /\ pc[c] = "idle"
    /\ CallsMade(NumCallers) < MaxCalls
    /\ made' = [made EXCEPT ![c] = @ + 1]
    /\ ReadInt(c, r, i)
    /\ UNCHANGED <<files, frameShape, cacheKey, last, sniffVars, routeVars>>

\* the callers waiting for the run of caller c
WaitingFor(c) == {w \in Callers : pc[w] = "waiting" /\ call[w].joined = call[c].run}

\* The factory of caller c completes: _safe_asarray returns or raises.  A
\* result is stored and handed to the caller and to the callers waiting for
\* this run; an error is handed to them and nothing is stored.
Compute(c) ==
    /\ pc[c] = "computing"
    /\ LET mine == call[c]
           res == safe_asarray(mine.reader, <<mine.index>>)
           got == IF res.err = "" THEN "array" ELSE res.err
           served == IF mine.cached THEN WaitingFor(c) \cup {c} ELSE {c}
       IN  /\ objectCache' =
                IF res.err = "" /\ mine.cached
                THEN Evict(Append(objectCache,
                                  [key |-> mine.key, value |-> res.value, by |-> mine.run]))
                ELSE objectCache
           /\ inflight' = inflight \ {[key |-> mine.key, run |-> mine.run]}
           /\ call' = [w \in Callers |->
                          IF w \in served
                          THEN [call[w] EXCEPT !.outcome = got, !.value = res.value,
                                               !.run = mine.run]
                          ELSE call[w]]
           /\ pc' = [w \in Callers |-> IF w \in served THEN "idle" ELSE pc[w]]
    /\ UNCHANGED <<nruns, made, files, frameShape, cacheKey, last, sniffVars, routeVars>>

CallersIdle ==
    /\ pc = [c \in Callers |-> "idle"]
    /\ call = [c \in Callers |-> NoRead]
    /\ inflight = {}
    /\ nruns = 0
    /\ made = [c \in Callers |-> 0]

\* the indices the callers ask for: two files, and one past the last file
CallIndices == {0, 1, MaxFiles}

(***************************************************************************)
(* declare_search_route.  The registry name_to_query_type is an ordered    *)
(* mapping from a name to a dataclass, given here by its field names.  A   *)
(* parameter of the signature is its name, its kind and its alias; the     *)
(* f-strings are kept as the sequences of their parts.                     *)
(***************************************************************************)
QueryNames == {"text", "lookup", "raw"}

FieldNames == <<"f1", "f2", "f3", "f4", "f5", "f6", "f7", "f8", "f9">>

\* dataclasses.fields(query) of a dataclass of n fields
FieldsOf(n) == SubSeq(FieldNames, 1, n)

Parameter(name, alias) ==
    [name |-> <<name>>, kind |-> "POSITIONAL_OR_KEYWORD", alias |-> alias]

\* inspect.signature(search).parameters: the parameters of the handler as written
SearchParameters ==
    << Parameter("path", <<>>), Parameter("fields", <<>>),
       Parameter("offset", <<"page[offset]">>), Parameter("limit", <<"page[limit]">>),
       Parameter("current_user", <<>>),
       [name |-> <<"filters">>, kind |-> "VAR_KEYWORD", alias |-> <<>>] >>

\* inspect.Parameter(name=f"filter___{name}___{field.name}", ...,
\*                   default=Query(None, alias=f"filter[{name}][condition][{field.name}]"))
InjectedParameter(name, field) ==
    [name |-> <<"filter___", name, "___", field>>,
     kind |-> "POSITIONAL_OR_KEYWORD",
     alias |-> <<"filter[", name, "][condition][", field, "]">>]

\* for field in dataclasses.fields(query): injected_parameter = ...
\* The variable is a set: empty while it has not been assigned.
RECURSIVE FieldLoop(_, _, _)
FieldLoop(name, fields, injected_parameter) ==
    IF fields = <<>> THEN injected_parameter
    ELSE FieldLoop(name, Tail(fields), {InjectedParameter(name, Head(fields))})

\* parameters.append(injected_parameter), once per query type, after its loop
\* over the fields; UnboundLocalError where nothing was ever assigned
AppendInjected(parameters, injected_parameter) ==
    IF injected_parameter = {} THEN [err |-> "UnboundLocalError", parameters |-> parameters]
    ELSE [err |-> "", parameters |-> Append(parameters, Only(injected_parameter))]

\* for name, query in name_to_query_type.items(): ...
RECURSIVE QueryLoop(_, _, _)
QueryLoop(registry, acc, injected_parameter) ==
    IF registry = <<>> \/ acc.err # "" THEN acc
    ELSE LET assigned == FieldLoop(Head(registry).name, Head(registry).fields,
                                   injected_parameter)
         IN  QueryLoop(Tail(registry), AppendInjected(acc.parameters, assigned), assigned)

\* signature.replace(parameters=parameters): ValueError on a duplicate name
signature_replace(acc) ==
    IF acc.err # "" THEN acc
    ELSE IF \E i, j \in DOMAIN acc.parameters :
                i # j /\ acc.parameters[i].name = acc.parameters[j].name
    THEN [err |-> "ValueError", parameters |-> acc.parameters]
    ELSE acc

\* del parameters[-1]
DropLast(s) == SubSeq(s, 1, Len(s) - 1)

NewSignature(registry) ==
    signature_replace(QueryLoop(registry,
                                [err |-> "", parameters |-> DropLast(SearchParameters)],
                                {}))

\* What the call left: search.__signature__ is replaced and the routes are
\* registered only where nothing was raised.
Declared(new) ==
    /\ declared' = (IF new.err = "" THEN "declared" ELSE new.err)
    /\ signature' = (IF new.err = "" THEN new.parameters ELSE signature)
    /\ routes' = (IF new.err = "" THEN {"/search/{path:path}", "/search"} ELSE routes)

declare_search_route ==
    /\ declared = "no"
    /\ Declared(NewSignature(name_to_query_type))
    /\ UNCHANGED <<name_to_query_type, sniffVars, readVars, callerVars>>

\* A query type of n fields is registered under a name not yet in the registry.
register(name, n) ==
    /\ declared = "no"
    /\ \A p \in DOMAIN name_to_query_type : name_to_query_type[p].name # name
    /\ name_to_query_type' =
            Append(name_to_query_type, [name |-> name, fields |-> FieldsOf(n)])
    /\ UNCHANGED <<declared, signature, routes, sniffVars, readVars, callerVars>>

RouteIdle ==
    /\ name_to_query_type = <<>>
    /\ declared = "no"
    /\ signature = SearchParameters
    /\ routes = {}

(***************************************************************************)
(* The four specifications.                                                *)
(***************************************************************************)
\* Two readers constructed over file lists; the cache is empty.
InitRead ==
    /\ \E f1 \in PrefixLists, f2 \in SuffixLists : files = [r1 |-> f1, r2 |-> f2]
    /\ frameShape \in FrameShapes
    /\ cacheKey = [r \in Readers |-> ReaderCacheKey(files[r])]
    /\ objectCache = <<>>
    /\ last = NoCall
    /\ SniffIdle /\ CallersIdle /\ RouteIdle

NextRead ==
    \/ \E r \in Readers, sel \in Selectors : Read(r, sel)
    \/ \E r \in Readers, block \in Blocks, sub \in SubInputs : ReadBlock(r, block, sub)
    \/ \E r \in Readers : Macrostructure(r)
    \/ Return

SpecRead == InitRead /\ [][NextRead]_vars

\* subdirectory_handler on a directory the environment fills
InitSniff == SniffIdle /\ ReadIdle /\ CallersIdle /\ RouteIdle

NextSniff ==
    \/ \E e \in Entries : AddEntry(e)
    \/ subdirectory_handler

SpecSniff == InitSniff /\ [][NextSniff]_vars

\* Two readers over file lists, equal or not, and callers that have not yet
\* called; frames of two axes, so that a frame of an existing file decodes.
InitCache ==
    /\ \E f2 \in {sorted(1..MaxFiles), sorted(MaxFiles..MaxFiles)} :
            files = [r1 |-> sorted(1..MaxFiles), r2 |-> f2]
    /\ frameShape = <<2, 3>>
    /\ cacheKey = [r \in Readers |-> ReaderCacheKey(files[r])]
    /\ objectCache = <<>>
    /\ last = NoCall
    /\ CallersIdle
    /\ SniffIdle /\ RouteIdle

NextCache ==
    \/ \E c \in Callers, r \in Readers, i \in CallIndices : CallRead(c, r, i)
    \/ \E c \in Callers : Compute(c)

SpecCache == InitCache /\ [][NextCache]_vars

\* declare_search_route called once the query types are registered
InitRoute == RouteIdle /\ SniffIdle /\ ReadIdle /\ CallersIdle

NextRoute ==
    \/ \E name \in QueryNames, n \in 0..MaxFields : register(name, n)
    \/ declare_search_route

SpecRoute == InitRoute /\ [][NextRoute]_vars

(***************************************************************************)
(* Claim about concurrent callers of one key.                              *)
(***************************************************************************)
Returned(c) == pc[c] = "idle" /\ made[c] > 0

\* C6: of the callers that ask for one key while it has no entry, one runs
\* the factory and the others wait for that run: no two runs of the factory
\* for one key are ever in progress together, a caller that found a run in
\* progress does not run the factory and is handed what that run produced,
\* the run it waits for is in progress, and the callers handed the result of
\* one run are handed the same value.
C6_OneRunServesAllCallers ==
    /\ \A c, d \in Callers :
          (c # d /\ pc[c] = "computing" /\ pc[d] = "computing")
              => call[c].key # call[d].key
    /\ \A c \in Callers :
          (made[c] > 0 /\ call[c].ran) => (call[c].missed /\ call[c].joined = 0)
    /\ \A c \in Callers :
          pc[c] = "waiting" =>
              \E d \in Callers : pc[d] = "computing" /\ call[d].run = call[c].joined
                                    /\ call[d].key = call[c].key
    /\ \A c \in Callers :
          (Returned(c) /\ call[c].joined # 0) =>
              (~call[c].ran /\ call[c].run = call[c].joined)
    /\ \A c, d \in Callers :
          (Returned(c) /\ Returned(d) /\ call[c].run = call[d].run) =>
              (call[c].outcome = call[d].outcome /\ call[c].value = call[d].value)

\* The callers asked for one key through readers with one cache key while
\* it had no entry; one ran the factory and every caller holds its array.
C6_Witness ==
    \E c \in Callers :
        /\ Returned(c) /\ call[c].ran /\ call[c].outcome = "array"
        /\ \A d \in Callers \ {c} :
              /\ Returned(d) /\ call[d].missed /\ ~call[d].ran
              /\ call[d].joined = call[c].run
              /\ call[d].key = call[c].key
              /\ call[d].value = call[c].value
        /\ \E d \in Callers : call[d].reader # call[c].reader

\* The run failed, and the caller waiting for it was handed its error; the
\* cache holds nothing for the key.
C6_WitnessError ==
    \E c, d \in Callers :
        /\ Returned(c) /\ call[c].ran /\ call[c].outcome = "IndexError"
        /\ Returned(d) /\ call[d].joined = call[c].run /\ call[d].outcome = "IndexError"
        /\ Position(objectCache, call[c].key) = 0
(***************************************************************************)
(* Claims about TiffSequenceReader, under SpecRead.                        *)
(***************************************************************************)
FileCount(r) == Len(files[r])

\* a key of the form (backend type, content fingerprint, file index)
IsFileKey(k, r) == k.base = cacheKey[r] /\ Len(k.index) = 1

\* the entries now in the cache under the keys the last call used
EntriesUsed == {e \in Range(objectCache) : e.key \in Range(last.keys)}

HoldsOneFile(e) == ~e.value.stacked /\ Len(e.value.frames) = 1

\* C1 as stated: every key a read uses, for every selector, is a file key, and
\* no entry it creates or looks up holds more than one file's data.
C1_EveryKeyIsAFileKey ==
    last.op = "read" =>
        /\ \A k \in Range(last.keys) : IsFileKey(k, last.reader)
        /\ \A e \in EntriesUsed : HoldsOneFile(e)

\* What does hold: that, of every selector but the absent one; a read of
\* the whole array uses the one key (backend type, content fingerprint), with
\* no file index, and the entry under it holds all the files' data.
C1_FileKeysButForWholeArray ==
    last.op = "read" =>
        IF last.sel.kind = "none"
        THEN /\ last.keys = <<[base |-> cacheKey[last.reader], index |-> <<>>]>>
             /\ \A e \in EntriesUsed : e.value = Stack(files[last.reader])
             /\ last.outcome = "array" /\ last.value = Stack(files[last.reader])
        ELSE /\ \A k \in Range(last.keys) : IsFileKey(k, last.reader)
             /\ \A e \in EntriesUsed : HoldsOneFile(e)

\* a read of a range that used several file keys
C1_Witness ==
    /\ last.op = "read" /\ last.sel.kind = "atom" /\ last.sel.atoms[1].kind = "slice"
    /\ last.outcome = "array"
    /\ Len(last.keys) >= 2
    /\ Cardinality(EntriesUsed) >= 2

\* a read of the whole array that stored the aggregate
C1_WitnessWholeArray ==
    /\ last.op = "read" /\ last.sel.kind = "none"
    /\ last.stored # <<>> /\ FileCount(last.reader) >= 2

\* the block coordinate lies outside the grid of (file_count) x 1 x 1 chunks
OutsideGrid(block, n) ==
    \/ Len(block) # 3
    \/ block[1] >= n
    \/ block[2] # 0
    \/ block[3] # 0

\* C4: read_block with a block coordinate outside the chunk grid fails with
\* IndexError and returns no data, decodes nothing and creates no cache entry.
C4_BlockOutsideGridFails ==
    (last.op = "read_block" /\ OutsideGrid(last.block, FileCount(last.reader))) =>
        /\ last.outcome = "IndexError"
        /\ last.value = NoArray
        /\ last.decoded = <<>>
        /\ last.stored = <<>> /\ last.hits = <<>>

\* read_block with block[0] = file_count and zeros on the other axes
C4_Witness ==
    /\ last.op = "read_block"
    /\ Len(last.block) = 3 /\ last.block[2] = 0 /\ last.block[3] = 0
    /\ last.block[1] >= FileCount(last.reader)
    /\ last.outcome = "IndexError"
    /\ objectCache # <<>>

C4_WitnessOtherAxis ==
    /\ last.op = "read_block" /\ Len(last.block) = 3 /\ last.block[3] = 1
    /\ last.block[1] < FileCount(last.reader)
    /\ last.outcome = "IndexError"

\* the decoded files at positions idxs (0-based) of the reader's file list
RECURSIVE FilesAt(_, _)
FilesAt(r, idxs) ==
    IF idxs = <<>> THEN <<>> ELSE <<files[r][Head(idxs) + 1]>> \o FilesAt(r, Tail(idxs))

\* range(start, stop, step) of a slice with a stop and a step other than 0
IndicesOf(s) ==
    range(IF s.start = {} THEN 0 ELSE Only(s.start), Only(s.stop),
          IF s.step = {} THEN 1 ELSE Only(s.step))

IsRange(s) == s.kind = "slice" /\ s.stop # {} /\ s.step # {0}

AllValid(idxs, n) == \A p \in DOMAIN idxs : 0 <= idxs[p] /\ idxs[p] < n

\* C5 as stated: read(i), 0 <= i < n, returns the decoded file at position i;
\* read of a range whose indices are file indices returns the stack of the
\* decoded files at those indices, in that order.
C5_ReadReturnsRequestedFiles ==
    (last.op = "read" /\ last.sel.kind = "atom") =>
        LET a == last.sel.atoms[1]
            n == FileCount(last.reader)
        IN  /\ (a.kind = "int" /\ 0 <= a.i /\ a.i < n) =>
                    /\ last.outcome = "array"
                    /\ last.value = Frame(files[last.reader][a.i + 1])
            /\ (IsRange(a) /\ AllValid(IndicesOf(a), n)) =>
                    /\ last.outcome = "array"
                    /\ last.value = Stack(FilesAt(last.reader, IndicesOf(a)))

\* what does hold: the same, for the ranges that are not empty
C5_NonEmptyRanges ==
    (last.op = "read" /\ last.sel.kind = "atom") =>
        LET a == last.sel.atoms[1]
            n == FileCount(last.reader)
        IN  /\ (a.kind = "int" /\ 0 <= a.i /\ a.i < n) =>
                    /\ last.outcome = "array"
                    /\ last.value = Frame(files[last.reader][a.i + 1])
            /\ (IsRange(a) /\ AllValid(IndicesOf(a), n) /\ IndicesOf(a) # <<>>) =>
                    /\ last.outcome = "array"
                    /\ last.value = Stack(FilesAt(last.reader, IndicesOf(a)))

\* an empty range raises the ValueError of numpy.stack
C5_EmptyRangeRaises ==
    (last.op = "read" /\ last.sel.kind = "atom" /\ IsRange(last.sel.atoms[1])
        /\ IndicesOf(last.sel.atoms[1]) = <<>>) => last.outcome = "ValueError"

\* a range read in descending order served from the cache
C5_ReachedDescending ==
    /\ last.op = "read" /\ last.sel.kind = "atom" /\ last.sel.atoms[1].kind = "slice"
    /\ last.outcome = "array" /\ Len(last.value.frames) = 2
    /\ last.value.frames[1] = 3 /\ last.value.frames[2] = 2
    /\ Len(last.hits) = 1

\* C7: every call of read ends by returning an array or by raising an error,
\* never by returning None.
C7_ReadNeverReturnsNone ==
    last.op = "read" => last.outcome # "None"

\* C8: macrostructure returns a structure whose shape and chunks have the
\* same number of axes, the chunks of each axis summing to the shape's extent.
C8_ChunksSumToShape ==
    last.op = "macrostructure" =>
        /\ last.outcome = "structure"
        /\ Len(last.shape) = Len(last.chunks)
        /\ \A d \in DOMAIN last.shape :
                d \in DOMAIN last.chunks /\ SumSeq(last.chunks[d]) = last.shape[d]

\* what does hold: the claim for frames of two axes
C8_TwoAxisFrames ==
    (last.op = "macrostructure" /\ Len(frameShape) = 2) =>
        /\ last.outcome = "structure"
        /\ last.shape = <<FileCount(last.reader)>> \o frameShape
        /\ Len(last.shape) = Len(last.chunks)
        /\ \A d \in DOMAIN last.shape : SumSeq(last.chunks[d]) = last.shape[d]

KeysOf(r) == {[base |-> cacheKey[r], index |-> <<>>]}
                \cup {[base |-> cacheKey[r], index |-> <<i>>] : i \in IntInputs}

\* C9: two readers over different file lists never use the same cache key,
\* whatever the indices, and neither is served an entry the other stored.
C9_DifferentFilesDifferentKeys ==
    \A r, q \in Readers :
        files[r] # files[q] =>
            /\ KeysOf(r) \cap KeysOf(q) = {}
            /\ last.reader = r =>
                    \A h \in Range(last.hits) : files[h.by] = files[r]

\* both readers, over different files, have an entry for the same index in
\* the cache, and one of them has just been served from the cache
C9_Witness ==
    /\ files["r1"] # files["r2"]
    /\ last.op = "read" /\ last.hits # <<>>
    /\ \E e, f \in Range(objectCache) :
            e.by = "r1" /\ f.by = "r2" /\ e.key.index = f.key.index

(***************************************************************************)
(* Claim about the signature declare_search_route leaves.                  *)
(***************************************************************************)
ParametersNamed(name) == {p \in DOMAIN signature : signature[p].name = name}

\* C10: once declare_search_route has returned, the signature of search has
\* no **filters parameter and has, for every field of every registered query
\* type, one parameter filter___{name}___{field} with the alias
\* filter[{name}][condition][{field}].
C10_OneParameterPerField ==
    declared = "declared" =>
        /\ \A p \in DOMAIN signature : signature[p].kind # "VAR_KEYWORD"
        /\ \A q \in DOMAIN name_to_query_type :
              \A f \in DOMAIN name_to_query_type[q].fields :
                  LET want == InjectedParameter(name_to_query_type[q].name,
                                                name_to_query_type[q].fields[f])
                  IN  /\ Cardinality(ParametersNamed(want.name)) = 1
                      /\ \A p \in ParametersNamed(want.name) :
                            signature[p].alias = want.alias

\* What the loop does add: where every query type has one field, each field
\* has its parameter.
C10_OneFieldTypes ==
    (declared = "declared" /\ \A q \in DOMAIN name_to_query_type :
                            Len(name_to_query_type[q].fields) = 1)
        => C10_OneParameterPerField

\* A query type of several fields gets the parameter of its last field only.
C10_LastFieldOnly ==
    (declared = "declared") =>
        \A q \in DOMAIN name_to_query_type :
            \A f \in DOMAIN name_to_query_type[q].fields :
                LET want == InjectedParameter(name_to_query_type[q].name,
                                              name_to_query_type[q].fields[f])
                IN  (ParametersNamed(want.name) # {})
                        <=> (f = Len(name_to_query_type[q].fields))

\* The call returns whatever is registered.
C10_AlwaysReturns == declared \in {"no", "declared"}

C10_ReachedOneFieldTypes ==
    /\ declared = "declared"
    /\ Len(name_to_query_type) = 3
    /\ \A q \in DOMAIN name_to_query_type : Len(name_to_query_type[q].fields) = 1
(***************************************************************************)
(* Claims about subdirectory_handler.                                      *)
(***************************************************************************)
\* The counts as the claims define them: over the non-hidden regular files.
CountableFiles == {e \in Entries : e.is_file /\ e.name[1] # "."}

HasTiffExtension(e) ==
    \E k \in {3, 4} :
        /\ Len(e.name) > k + 1
        /\ SubSeq(e.name, Len(e.name) - k, Len(e.name)) \in TiffSuffixes

StemOf(e) ==
    CHOOSE s \in {SubSeq(e.name, 1, n) : n \in 0..Len(e.name)} :
        \E x \in TiffSuffixes : s \o x = e.name

EndsInDigits(s) ==
    /\ s # <<>>
    /\ \A i \in DOMAIN s : i > Len(s) - 3 => s[i] \in Digits

MatchingKinds == {e \in CountableFiles : HasTiffExtension(e) /\ EndsInDigits(StemOf(e))}

RECURSIVE CountOver(_, _)
CountOver(S, dir) ==
    IF S = {} THEN 0
    ELSE LET e == CHOOSE x \in S : TRUE IN dir[e] + CountOver(S \ {e}, dir)

matches == CountOver(MatchingKinds, dirEntries)
claimOutliers == CountOver(CountableFiles \ MatchingKinds, dirEntries)

\* C2: subdirectory_handler on a directory with no countable file returns None
\* and raises nothing.
C2_EmptyDirectoryReturnsNone ==
    (sniffOut # NotCalled /\ matches = 0 /\ claimOutliers = 0)
        => sniffOut.outcome = "None"

\* C3: on a directory with at least one countable file a reader is constructed
\* iff outliers <= 10 and (outliers = 0 or outliers / (outliers + matches) <= 0.2),
\* and None is returned otherwise.
C3_AcceptIffWithinThresholds ==
    (sniffOut # NotCalled /\ matches + claimOutliers > 0) =>
        LET accept ==
                /\ claimOutliers <= 10
                /\ (claimOutliers = 0 \/ 5 * claimOutliers <= claimOutliers + matches)
        IN  /\ accept => sniffOut = [outcome |-> "TiffSequenceReader", nfiles |-> matches]
            /\ ~accept => sniffOut.outcome = "None"

\* C3's cases: 100 matches with 5 outliers accepted, 50 with 20 rejected, and a
\* directory whose fraction is fine but whose outliers exceed the absolute bound.
C3_Witness ==
    /\ sniffOut.outcome = "TiffSequenceReader"
    /\ matches = 100 /\ claimOutliers = 5
    /\ dirEntries[TextFile] < claimOutliers

C3_WitnessRejected ==
    sniffOut.outcome = "None" /\ matches = 50 /\ claimOutliers = 20

C3_WitnessAbsolute ==
    sniffOut.outcome = "None" /\ claimOutliers = 11 /\ 5 * claimOutliers <= claimOutliers + matches

====
